---- MODULE Spec2Model ----
(***************************************************************************)
(* Per-unit calculator (src/app.py): the base derivation, the              *)
(* actual <-> per-unit conversion, the batch loop over                     *)
(* (line x sequence x quantity) and the capacitance unit converter.        *)
(*                                                                         *)
(* Python floats are binary floating-point numbers.  They are modelled by  *)
(* a binary floating-point format of the same shape as IEEE-754 binary64   *)
(* (sign, integer significand of Prec bits, exponent, gradual underflow,   *)
(* infinities, NaN, round-to-nearest-even), scaled down to Prec bits and   *)
(* a binary exponent up to ExpRange so that the arithmetic can be enumerated. *)
(***************************************************************************)
EXTENDS Integers, Sequences, FiniteSets, TLC

\* Significand width in bits (binary64 has 53).
Prec == 4

\* The largest binary exponent of a finite float (binary64 has 1023).
ExpRange == 48

\* binary64: normal numbers 2^(-1022) .. 2^1024, significand exponents -1074 .. 971.
EMin == 0 - (ExpRange - 1) - (Prec - 1)
EMax == ExpRange - (Prec - 1)

Pow2(k) == 2 ^ k

(***************************************************************************)
(* Values.  c is "fin" (s: sign bit, value m * 2^e, with m < 2^Prec and    *)
(* either m >= 2^(Prec-1) or e = EMin), "inf", "nan", "None" (Python's     *)
(* None, the default of the base parameters) or the name of the exception  *)
(* an expression ended in.                                                 *)
(***************************************************************************)
Fin(s, m, e) == [c |-> "fin", s |-> s, m |-> m, e |-> e]
Zero(s) == Fin(s, 0, EMin)
Inf(s) == [c |-> "inf", s |-> s, m |-> 0, e |-> 0]
NaN == [c |-> "nan", s |-> 0, m |-> 0, e |-> 0]
NoneVal == [c |-> "None", s |-> 0, m |-> 0, e |-> 0]
Raised(name) == [c |-> name, s |-> 0, m |-> 0, e |-> 0]

Exceptions == {"ZeroDivisionError", "OverflowError"}
IsRaised(a) == a.c \in Exceptions
IsZero(a) == a.c = "fin" /\ a.m = 0
IsFinite(a) == a.c = "fin"
\* A finite nonzero number with a full-width significand (not subnormal).
IsNormal(a) == a.c = "fin" /\ a.m >= Pow2(Prec - 1)

SignXor(a, b) == (a.s + b.s) % 2

\* n/d * 2^x brought to d <= n < 2d (n > 0, d > 0).
RECURSIVE NormRat(_, _, _)
NormRat(n, d, x) ==
    IF n < d THEN NormRat(2 * n, d, x - 1)
    ELSE IF n >= 2 * d THEN NormRat(n, 2 * d, x + 1)
    ELSE <<n, d, x>>

\* k more quotient bits of r/d by long division: <<quotient, remainder>>.
RECURSIVE LongDiv(_, _, _, _)
LongDiv(q, r, d, k) ==
    IF k = 0 THEN <<q, r>>
    ELSE IF 2 * r >= d THEN LongDiv(2 * q + 1, 2 * r - d, d, k - 1)
    ELSE LongDiv(2 * q, 2 * r, d, k - 1)

(***************************************************************************)
(* The float nearest to (-1)^s * n/d * 2^x, ties to even: the rounding     *)
(* every float operation and every float literal ends with.  The result    *)
(* is subnormal below 2^(Prec-1) * 2^EMin and infinite above the largest   *)
(* finite float.                                                           *)
(***************************************************************************)
RoundRat(s, n, d, x) ==
    IF n = 0 THEN Zero(s)
    ELSE
      LET t  == NormRat(n, d, x)
          e0 == t[3] - (Prec - 1)
          nb == IF e0 < EMin THEN Prec - (EMin - e0) ELSE Prec
          e1 == IF e0 < EMin THEN EMin ELSE e0
      IN IF nb < 0 THEN Zero(s)
         ELSE
           LET qr == LongDiv(1, t[1] - t[2], t[2], nb)
               m  == qr[1] \div 2
               up == qr[1] % 2 = 1 /\ (qr[2] # 0 \/ m % 2 = 1)
               m1 == IF up THEN m + 1 ELSE m
               m2 == IF m1 = Pow2(Prec) THEN Pow2(Prec - 1) ELSE m1
               e2 == IF m1 = Pow2(Prec) THEN e1 + 1 ELSE e1
           IN IF e2 > EMax THEN Inf(s) ELSE Fin(s, m2, e2)

\* A decimal literal n/d, e.g. 13.8 = Dec(138, 10).
Dec(n, d) == RoundRat(0, n, d, 0)
One == Dec(1, 1)

\* a * b on floats.
FMul(a, b) ==
    IF a.c = "nan" \/ b.c = "nan" THEN NaN
    ELSE IF a.c = "inf" \/ b.c = "inf"
         THEN IF IsZero(a) \/ IsZero(b) THEN NaN ELSE Inf(SignXor(a, b))
    ELSE RoundRat(SignXor(a, b), a.m * b.m, 1, a.e + b.e)

\* a / b on floats: a zero divisor raises ZeroDivisionError.
FDiv(a, b) ==
    IF IsZero(b) THEN Raised("ZeroDivisionError")
    ELSE IF a.c = "nan" \/ b.c = "nan" THEN NaN
    ELSE IF a.c = "inf" THEN (IF b.c = "inf" THEN NaN ELSE Inf(SignXor(a, b)))
    ELSE IF b.c = "inf" THEN Zero(SignXor(a, b))
    ELSE RoundRat(SignXor(a, b), a.m, b.m, a.e - b.e)

\* a ** 2 on floats: a finite operand whose square overflows raises OverflowError.
FSquare(a) ==
    IF a.c = "fin" /\ FMul(a, a).c = "inf" THEN Raised("OverflowError")
    ELSE FMul(a, a)

\* bool(a): the test of `x if a else y`.
Truthy(a) == ~ (a.c = "None" \/ IsZero(a))

(***************************************************************************)
(* Exact comparison of finite values m * 2^e (any m >= 0).                 *)
(***************************************************************************)
Abs(i) == IF i < 0 THEN 0 - i ELSE i

\* The exact product of two finite floats.
ExactMul(a, b) == [c |-> "fin", s |-> SignXor(a, b), m |-> a.m * b.m, e |-> a.e + b.e]

\* |a - b| <= k * 2^(-Prec) * |b|: a is b up to a relative error of k units
\* of 2^(-Prec), the bound on the error of one rounding (k < 2^(Prec-1)).
Close(a, b, k) ==
    IF b.m = 0 THEN a.m = 0
    ELSE IF a.m = 0 \/ a.s # b.s THEN FALSE
    ELSE IF Abs(a.e - b.e) > 2 * Prec + 1 THEN FALSE
    ELSE LET lo == IF a.e < b.e THEN a.e ELSE b.e
             A  == a.m * Pow2(a.e - lo)
             B  == b.m * Pow2(b.e - lo)
         IN IF A > 2 * B \/ 2 * A < B THEN FALSE
            ELSE Abs(A - B) * Pow2(Prec) <= k * B

(***************************************************************************)
(* src/app.py                                                              *)
(***************************************************************************)
\* The int 0 the guards return; 0 == 0.0 in Python, and nothing computes with it.
PyZero == Zero(0)

\* math.sqrt(3): the float nearest to the square root of 3.
Sqrt3 ==
    LET m == CHOOSE k \in Pow2(Prec - 1) .. Pow2(Prec) :
                 (2 * k - 1) * (2 * k - 1) < 3 * Pow2(2 * Prec)
                 /\ 3 * Pow2(2 * Prec) < (2 * k + 1) * (2 * k + 1)
    IN Fin(0, m, 0 - (Prec - 1))

\* calculate_base_values(S_base, V_base): the pair, or the exception raised.
calculate_base_values(S_base_, V_base_) ==
    LET sq == FSquare(V_base_)
        z  == IF IsRaised(sq) THEN sq ELSE FDiv(sq, S_base_)
        i  == FDiv(S_base_, FMul(Sqrt3, V_base_))
    IN IF IsRaised(z) THEN [raised |-> z.c, Z_base |-> NoneVal, I_base |-> NoneVal]
       ELSE IF IsRaised(i) THEN [raised |-> i.c, Z_base |-> NoneVal, I_base |-> NoneVal]
       ELSE [raised |-> "none", Z_base |-> z, I_base |-> i]

ImpedanceKinds == {"Resistance", "Reactance", "Impedance"}

\* SusceptanceBase with the reciprocal forgotten.
SusceptanceBase_NoReciprocal(Z_base_) == IF Truthy(Z_base_) THEN Z_base_ ELSE PyZero

\* B_base of to_pu and from_pu.
SusceptanceBase(Z_base_) == IF Truthy(Z_base_) THEN FDiv(One, Z_base_) ELSE PyZero

\* to_pu with the guard of the current base forgotten.
to_pu_Unguarded(value, Z_base_, I_base_, V_base_, quantity_type) ==
    IF quantity_type \in ImpedanceKinds
    THEN IF Truthy(Z_base_) THEN FDiv(value, Z_base_) ELSE PyZero
    ELSE IF quantity_type = "Susceptance"
    THEN LET B_base == SusceptanceBase(Z_base_)
         IN IF Truthy(B_base) THEN FDiv(value, B_base) ELSE PyZero
    ELSE IF quantity_type = "Voltage"
    THEN IF Truthy(V_base_) THEN FDiv(value, V_base_) ELSE PyZero
    ELSE IF quantity_type = "Current"
    THEN FDiv(value, I_base_)
    ELSE PyZero

to_pu(value, Z_base_, I_base_, V_base_, quantity_type) ==
    IF quantity_type \in ImpedanceKinds
    THEN IF Truthy(Z_base_) THEN FDiv(value, Z_base_) ELSE PyZero
    ELSE IF quantity_type = "Susceptance"
    THEN LET B_base == SusceptanceBase(Z_base_)
         IN IF Truthy(B_base) THEN FDiv(value, B_base) ELSE PyZero
    ELSE IF quantity_type = "Voltage"
    THEN IF Truthy(V_base_) THEN FDiv(value, V_base_) ELSE PyZero
    ELSE IF quantity_type = "Current"
    THEN IF Truthy(I_base_) THEN FDiv(value, I_base_) ELSE PyZero
    ELSE PyZero

\* from_pu dividing a voltage by its base, as to_pu does.
from_pu_DividesVoltage(pu_value, Z_base_, I_base_, V_base_, quantity_type) ==
    IF quantity_type \in ImpedanceKinds
    THEN IF Truthy(Z_base_) THEN FMul(pu_value, Z_base_) ELSE PyZero
    ELSE IF quantity_type = "Susceptance"
    THEN LET B_base == SusceptanceBase(Z_base_)
         IN IF Truthy(B_base) THEN FMul(pu_value, B_base) ELSE PyZero
    ELSE IF quantity_type = "Voltage"
    THEN IF Truthy(V_base_) THEN FDiv(pu_value, V_base_) ELSE PyZero
    ELSE IF quantity_type = "Current"
    THEN IF Truthy(I_base_) THEN FMul(pu_value, I_base_) ELSE PyZero
    ELSE PyZero

from_pu(pu_value, Z_base_, I_base_, V_base_, quantity_type) ==
    IF quantity_type \in ImpedanceKinds
    THEN IF Truthy(Z_base_) THEN FMul(pu_value, Z_base_) ELSE PyZero
    ELSE IF quantity_type = "Susceptance"
    THEN LET B_base == SusceptanceBase(Z_base_)
         IN IF Truthy(B_base) THEN FMul(pu_value, B_base) ELSE PyZero
    ELSE IF quantity_type = "Voltage"
    THEN IF Truthy(V_base_) THEN FMul(pu_value, V_base_) ELSE PyZero
    ELSE IF quantity_type = "Current"
    THEN IF Truthy(I_base_) THEN FMul(pu_value, I_base_) ELSE PyZero
    ELSE PyZero

\* UNIT_CATEGORIES["Capacitance"]["units"]: 1e-12 = 5^(-12) * 2^(-12).
CapUnits == {"F", "mF", "uF", "nF", "pF"}
UNIT_CATEGORIES(unit) ==
    CASE unit = "F"  -> Dec(1, 1)
      [] unit = "mF" -> Dec(1, 1000)
      [] unit = "uF" -> Dec(1, 1000000)
      [] unit = "nF" -> Dec(1, 1000000000)
      [] unit = "pF" -> RoundRat(0, 1, 244140625, 0 - 12)

\* convert_capacitance multiplying by the target scale instead of dividing.
convert_capacitance_Multiplies(value, from_unit, to_unit) ==
    FMul(FMul(value, UNIT_CATEGORIES(from_unit)), UNIT_CATEGORIES(to_unit))

\* render_capacitance_converter: base_val = value * units[from]; result = base_val / units[to].
convert_capacitance(value, from_unit, to_unit) ==
    FDiv(FMul(value, UNIT_CATEGORIES(from_unit)), UNIT_CATEGORIES(to_unit))


\* The smallest positive (subnormal) float and the largest finite float.
MinSub == Fin(0, 1, EMin)
MaxFloat == Fin(0, Pow2(Prec) - 1, EMax)
Neg(a) == [a EXCEPT !.s = 1 - a.s]

VARIABLES
    pc,             \* position of the run
    app_mode,       \* the page chosen in the sidebar
    S_base, V_base, Z_base, I_base,
    num_lines, sequences, calc_mode, per_km, line_length,
    widget,         \* the number_input widgets' values, by widget key
    results, line_result, line_idx, seq_pos, qty_pos,
    pending,        \* the entries not computed yet, when the order is free
    from_unit, to_unit, value, result,
    fn, quantity_type, ret1, ret2

baseVars == <<S_base, V_base, Z_base, I_base>>
batchVars == <<num_lines, sequences, calc_mode, per_km, line_length, widget,
               results, line_result, line_idx, seq_pos, qty_pos, pending>>
capVars == <<from_unit, to_unit>>
callVars == <<fn, quantity_type, ret1, ret2>>
vars == <<pc, app_mode, baseVars, batchVars, capVars, value, result, callVars>>

(***************************************************************************)
(* The functions called on their own: to_pu and from_pu one after the      *)
(* other on the same bases, calculate_base_values, and the capacitance     *)
(* conversion there and back.                                              *)
(***************************************************************************)
QuantityTypes == {"Resistance", "Reactance", "Impedance", "Susceptance", "Voltage", "Current"}

FnValues == {Zero(0), Dec(5, 100), Dec(5, 10), Dec(3, 1), MinSub, MaxFloat,
             Neg(Dec(3, 1)), Inf(0), NaN}
FnBases == {Zero(0), NoneVal, Dec(3, 1), Dec(138, 10), MinSub, MaxFloat, Inf(0)}
FnPowerBases == {Zero(0), Dec(100, 1), Dec(138, 10), MinSub, MaxFloat}
CapValues == {Zero(0), Dec(1, 1), Dec(5, 100), Dec(3, 1), Neg(Dec(5, 10)), MinSub, MaxFloat}

NoBatch ==
    /\ num_lines = 0 /\ sequences = <<>> /\ calc_mode = "" /\ per_km = FALSE
    /\ line_length = NoneVal /\ widget = <<>> /\ results = <<>>
    /\ line_result = <<>> /\ line_idx = 0 /\ seq_pos = 0 /\ qty_pos = 0
    /\ pending = {}

FnInit ==
    /\ pc = "call" /\ app_mode = "" /\ NoBatch
    /\ ret1 = NoneVal /\ ret2 = NoneVal /\ result = NoneVal
    /\ \/ /\ fn \in {"to_pu", "from_pu"}
          /\ value \in FnValues
          /\ quantity_type \in QuantityTypes
          /\ Z_base \in FnBases /\ I_base \in FnBases /\ V_base \in FnBases
          /\ S_base = NoneVal /\ from_unit = "" /\ to_unit = ""
       \/ /\ fn = "calculate_base_values"
          /\ S_base \in FnPowerBases /\ V_base \in FnPowerBases
          /\ value = NoneVal /\ quantity_type = ""
          /\ Z_base = NoneVal /\ I_base = NoneVal /\ from_unit = "" /\ to_unit = ""
       \/ /\ fn = "convert_capacitance"
          /\ value \in CapValues
          /\ from_unit \in CapUnits /\ to_unit \in CapUnits
          /\ quantity_type = ""
          /\ S_base = NoneVal /\ V_base = NoneVal /\ Z_base = NoneVal /\ I_base = NoneVal

FnFrame == UNCHANGED <<app_mode, baseVars, batchVars, capVars, value, result, fn, quantity_type>>

\* to_pu(value), or to_pu of what from_pu returned.
CallToPu ==
    /\ \/ /\ fn = "to_pu" /\ pc = "call"
          /\ ret1' = to_pu(value, Z_base, I_base, V_base, quantity_type)
          /\ ret2' = ret2
          /\ pc' = "returned"
       \/ /\ fn = "from_pu" /\ pc = "returned"
          /\ ret2' = to_pu(ret1, Z_base, I_base, V_base, quantity_type)
          /\ ret1' = ret1
          /\ pc' = "back"
    /\ FnFrame

\* from_pu(value), or from_pu of what to_pu returned.
CallFromPu ==
    /\ \/ /\ fn = "from_pu" /\ pc = "call"
          /\ ret1' = from_pu(value, Z_base, I_base, V_base, quantity_type)
          /\ ret2' = ret2
          /\ pc' = "returned"
       \/ /\ fn = "to_pu" /\ pc = "returned"
          /\ ret2' = from_pu(ret1, Z_base, I_base, V_base, quantity_type)
          /\ ret1' = ret1
          /\ pc' = "back"
    /\ FnFrame

\* Z_base, I_base = calculate_base_values(S_base, V_base): ret1, ret2 are the
\* pair, or both the exception the call ended in.
CallCalculateBase ==
    /\ fn = "calculate_base_values" /\ pc = "call"
    /\ LET r == calculate_base_values(S_base, V_base)
       IN /\ ret1' = IF r.raised = "none" THEN r.Z_base ELSE Raised(r.raised)
          /\ ret2' = IF r.raised = "none" THEN r.I_base ELSE Raised(r.raised)
    /\ pc' = "returned"
    /\ FnFrame

\* value from from_unit to to_unit, then the result from to_unit to from_unit.
CallConvert ==
    /\ fn = "convert_capacitance"
    /\ \/ /\ pc = "call"
          /\ ret1' = convert_capacitance(value, from_unit, to_unit)
          /\ ret2' = ret2
          /\ pc' = "returned"
       \/ /\ pc = "returned"
          /\ ret2' = convert_capacitance(ret1, to_unit, from_unit)
          /\ ret1' = ret1
          /\ pc' = "back"
    /\ FnFrame

FnNext == CallToPu \/ CallFromPu \/ CallCalculateBase \/ CallConvert
SpecFn == FnInit /\ [][FnNext]_vars

(***************************************************************************)
(* Properties of the functions (checked under SpecFn).                     *)
(***************************************************************************)
\* Python's a == b on numbers.
PyEq(a, b) ==
    /\ a.c \in {"fin", "inf"} /\ b.c \in {"fin", "inf"}
    /\ \/ a = b
       \/ IsZero(a) /\ IsZero(b)

\* The base the conversion of a quantity type reads.
RelevantBase(qty) ==
    IF qty = "Voltage" THEN V_base ELSE IF qty = "Current" THEN I_base ELSE Z_base

NonNegative(a) == a.c = "fin" /\ (a.s = 0 \/ a.m = 0)
PuCall == fn \in {"to_pu", "from_pu"} /\ quantity_type \in QuantityTypes
FiniteNonzeroBase == IsFinite(RelevantBase(quantity_type)) /\ ~ IsZero(RelevantBase(quantity_type))

\* The conversion there and back neither overflowed nor underflowed.
RoundTripInRange ==
    /\ IsFinite(ret2)
    /\ IsZero(value) \/ (IsNormal(value) /\ IsNormal(ret1))

\* C1 as stated: for every quantity kind, nonzero base and value v >= 0,
\* from_pu(to_pu(v)) equals v and to_pu(from_pu(p)) equals p.
C1_RoundTripExact ==
    (pc = "back" /\ PuCall /\ FiniteNonzeroBase /\ NonNegative(value))
        => PyEq(ret2, value)

\* C1 amended: the round trip returns v up to a relative error of 3 * 2^(-Prec)
\* whenever nothing overflowed or underflowed on the way (v and the converted
\* value are normal numbers, or v is 0, and the result is finite).
C1_RoundTripClose ==
    (pc = "back" /\ PuCall /\ FiniteNonzeroBase /\ NonNegative(value) /\ RoundTripInRange)
        => Close(ret2, value, 3)

\* C1 witness: a round trip within range whose result is close to v and not v.
C1_Witness ==
    /\ pc = "back" /\ PuCall /\ FiniteNonzeroBase /\ NonNegative(value) /\ RoundTripInRange
    /\ ~ PyEq(ret2, value)
    /\ Close(ret2, value, 3)

\* C2: when the base relevant to the quantity type is zero, to_pu and from_pu
\* return 0 for every value, and do not raise.
C2_ZeroGuard ==
    (PuCall /\ IsZero(RelevantBase(quantity_type)))
        => /\ pc \in {"returned", "back"} => ret1 = PyZero
           /\ pc = "back" => ret2 = PyZero

\* C2 witness: both functions have returned 0 on a zero base for a value that is not 0.
C2_Witness ==
    /\ pc = "back" /\ fn = "from_pu" /\ quantity_type = "Susceptance"
    /\ IsZero(Z_base) /\ ~ IsZero(I_base) /\ ~ IsZero(V_base)
    /\ value = Dec(3, 1)
    /\ ret1 = PyZero /\ ret2 = PyZero

\* C3 as stated: with S_base = 0 or V_base = 0, calculate_base_values returns a
\* defined pair and does not end in an error.
C3_BaseNeverRaises ==
    (pc = "returned" /\ fn = "calculate_base_values" /\ (IsZero(S_base) \/ IsZero(V_base)))
        => ~ IsRaised(ret1) /\ ~ IsRaised(ret2)

SusceptanceCall ==
    /\ pc = "returned" /\ fn \in {"to_pu", "from_pu"} /\ quantity_type = "Susceptance"
    /\ IsFinite(value) /\ IsFinite(Z_base)

\* C7 as stated: to_pu(x, Susceptance) equals x * Z_base for every Z_base, and
\* from_pu(p, Susceptance) equals p / Z_base for every nonzero Z_base.
C7_SusceptanceExact ==
    SusceptanceCall =>
        /\ fn = "to_pu" => PyEq(ret1, FMul(value, Z_base))
        /\ (fn = "from_pu" /\ ~ IsZero(Z_base)) => PyEq(ret1, FDiv(value, Z_base))

\* 1/Z_base and the result are normal numbers (or the value is 0).
SusceptanceInRange ==
    /\ ~ IsZero(Z_base)
    /\ IsNormal(SusceptanceBase(Z_base))
    /\ IsZero(value) \/ IsNormal(ret1)

\* C7 amended: to_pu(x, Susceptance) is 0 when Z_base is 0 and otherwise
\* x * Z_base up to a relative error of 3 * 2^(-Prec), and from_pu(p, Susceptance)
\* is p / Z_base up to the same error (ret1 * Z_base is p up to it), whenever
\* 1/Z_base and the result neither overflow nor underflow.
C7_SusceptanceClose ==
    SusceptanceCall =>
        /\ (fn = "to_pu" /\ IsZero(Z_base)) => ret1 = PyZero
        /\ (fn = "to_pu" /\ SusceptanceInRange) => Close(ret1, ExactMul(value, Z_base), 3)
        /\ (fn = "from_pu" /\ SusceptanceInRange) => Close(ExactMul(ret1, Z_base), value, 3)

\* C7 witness: to_pu of a susceptance that is close to x * Z_base and not the float x * Z_base.
C7_Witness ==
    /\ SusceptanceCall /\ fn = "to_pu" /\ SusceptanceInRange
    /\ ~ PyEq(ret1, FMul(value, Z_base))
    /\ Close(ret1, ExactMul(value, Z_base), 3)

ConvertCall == fn = "convert_capacitance" /\ pc \in {"returned", "back"}

\* C9 as stated: converting v from a unit to the same unit returns v, and
\* converting from a to b and back from b to a returns v.
C9_ConvertExact ==
    ConvertCall =>
        /\ from_unit = to_unit => PyEq(ret1, value)
        /\ pc = "back" => PyEq(ret2, value)

\* No product or quotient of the conversion of v from unit a to unit b
\* overflowed or underflowed.
ConvertInRange(v, a, b) ==
    IsZero(v) \/ /\ IsNormal(v)
                 /\ IsNormal(FMul(v, UNIT_CATEGORIES(a)))
                 /\ IsNormal(convert_capacitance(v, a, b))

\* C9 amended: whenever no intermediate result overflows or underflows, the
\* conversion from a unit to itself returns v up to a relative error of
\* 3 * 2^(-Prec), and the conversion from a to b and back returns v up to
\* 5 * 2^(-Prec).
C9_ConvertClose ==
    ConvertCall =>
        /\ (from_unit = to_unit /\ ConvertInRange(value, from_unit, to_unit))
               => Close(ret1, value, 3)
        /\ (pc = "back" /\ ConvertInRange(value, from_unit, to_unit)
                        /\ ConvertInRange(ret1, to_unit, from_unit))
               => Close(ret2, value, 5)

\* C9 witness: a conversion there and back, between two different units,
\* within range, that returns a value close to v and not v.
C9_Witness ==
    /\ ConvertCall /\ pc = "back" /\ from_unit # to_unit
    /\ ConvertInRange(value, from_unit, to_unit)
    /\ ConvertInRange(ret1, to_unit, from_unit)
    /\ ~ PyEq(ret2, value)
    /\ Close(ret2, value, 5)

(***************************************************************************)
(* The application: one run of the script per action sequence.             *)
(***************************************************************************)
\* The most lines and selected sequences of a run of the model.
MaxLines == 2
MaxSeqs == 2

\* number_input("Number of Lines", min_value=1, max_value=50).
NumLinesMax == 50

Quantities == <<"Resistance", "Reactance", "Susceptance", "Voltage", "Current">>
SequenceOptions == {"Positive", "Negative", "Zero"}
PerKmKinds == {"Resistance", "Reactance", "Susceptance"}
ActualToPU == "Actual -> PU"
PUToActual == "PU -> Actual"

Range(f) == {f[i] : i \in DOMAIN f}
Min(a, b) == IF a < b THEN a ELSE b

\* What st.multiselect returns: the selected options, each once.
SeqLists(n) ==
    {q \in UNION {[1..k -> SequenceOptions] : k \in 0..Min(n, 3)} :
        \A i, j \in DOMAIN q : i # j => q[i] # q[j]}

SeqChoices == SeqLists(MaxSeqs)
NumLinesChoices == 1 .. Min(MaxLines, NumLinesMax)

\* key = f"{qty}_{seq}_line{line_idx}"
WidgetKey(qty, seq, line) == <<qty, seq, line>>
\* f"{qty}_{seq}_Actual ({label_unit})" and f"{qty}_{seq}_PU (pu)"
ActualCol_NoSeq(qty, seq) == <<qty, "", "Actual">>
ActualCol(qty, seq) == <<qty, seq, "Actual">>
PuCol(qty, seq) == <<qty, seq, "PU">>

\* d[k] = v on a dict.
DictSet(d, k, v) == [x \in (DOMAIN d) \cup {k} |-> IF x = k THEN v ELSE d[x]]

\* Inputs of a run.  S_base, V_base and the line length are at least 0.1, the
\* entries at least 0.0.
SBaseInputs == {Dec(100, 1), MaxFloat}
VBaseInputs == {Dec(138, 10), Dec(1, 10), MaxFloat}
DefaultLength == Dec(10, 1)
LengthInputs == {DefaultLength, Dec(1, 10)}
EntryInputs == <<Dec(5, 10), Dec(5, 100), Dec(7, 10), MaxFloat, Zero(0), MinSub>>
QtyIdx(qty) == CHOOSE i \in DOMAIN Quantities : Quantities[i] = qty
SeqIdx(seq) == CHOOSE i \in 1..3 : <<"Positive", "Negative", "Zero">>[i] = seq

\* The values of the entry widgets of a run: pattern (a, b) of EntryInputs.
WidgetValues(a, b, n, seqs) ==
    [k \in {WidgetKey(q, sq, l) : q \in Range(Quantities), sq \in Range(seqs), l \in 1..n} |->
        EntryInputs[((a + b * k[3] + SeqIdx(k[2]) + QtyIdx(k[1])) % Len(EntryInputs)) + 1]]
WidgetPatterns == (0 .. Len(EntryInputs) - 1) \X {1}

\* EntryPair converting the wrong way in Actual -> PU mode.
EntryPair_WrongDirection(val, qty, mode, perkm, length, Zb, Ib, Vb) ==
    IF mode = ActualToPU
    THEN LET actual_val == IF qty \in PerKmKinds /\ perkm THEN FMul(val, length) ELSE val
         IN <<actual_val, from_pu(actual_val, Zb, Ib, Vb, qty)>>
    ELSE <<from_pu(val, Zb, Ib, Vb, qty), val>>

\* EntryPair scaling every kind by the line length.
EntryPair_ScalesEveryKind(val, qty, mode, perkm, length, Zb, Ib, Vb) ==
    IF mode = ActualToPU
    THEN LET actual_val == IF perkm THEN FMul(val, length) ELSE val
         IN <<actual_val, to_pu(actual_val, Zb, Ib, Vb, qty)>>
    ELSE <<from_pu(val, Zb, Ib, Vb, qty), val>>

\* EntryPair scaling the derived actual value by the line length in PU -> Actual mode.
EntryPair_ScalesPerUnit(val, qty, mode, perkm, length, Zb, Ib, Vb) ==
    IF mode = ActualToPU
    THEN LET actual_val == IF qty \in PerKmKinds /\ perkm THEN FMul(val, length) ELSE val
         IN <<actual_val, to_pu(actual_val, Zb, Ib, Vb, qty)>>
    ELSE <<IF qty \in PerKmKinds /\ perkm
           THEN FMul(from_pu(val, Zb, Ib, Vb, qty), length)
           ELSE from_pu(val, Zb, Ib, Vb, qty), val>>

\* Lines 135-143: the (actual_val, pu_val) of one entry.
EntryPair(val, qty, mode, perkm, length, Zb, Ib, Vb) ==
    IF mode = ActualToPU
    THEN LET actual_val == IF qty \in PerKmKinds /\ perkm THEN FMul(val, length) ELSE val
         IN <<actual_val, to_pu(actual_val, Zb, Ib, Vb, qty)>>
    ELSE <<from_pu(val, Zb, Ib, Vb, qty), val>>

\* LoopBody reading the resistance already recorded for the sequence, when
\* there is one, instead of the entry's own widget.
LoopBody_ReadsOtherEntry(lr, line, seq, qty) ==
    LET own  == widget[WidgetKey(qty, seq, line)]
        val  == IF qty # "Resistance" /\ ActualCol("Resistance", seq) \in DOMAIN lr.cols
                THEN lr.cols[ActualCol("Resistance", seq)] ELSE own
        pair == EntryPair(val, qty, calc_mode, per_km, line_length, Z_base, I_base, V_base)
    IN [lr EXCEPT !.cols = DictSet(DictSet(lr.cols, ActualCol(qty, seq), pair[1]),
                                   PuCol(qty, seq), pair[2])]

\* Lines 133-145: the body of the innermost loop on line_result.
LoopBody(lr, line, seq, qty) ==
    LET pair == EntryPair(widget[WidgetKey(qty, seq, line)], qty, calc_mode, per_km,
                          line_length, Z_base, I_base, V_base)
    IN [lr EXCEPT !.cols = DictSet(DictSet(lr.cols, ActualCol(qty, seq), pair[1]),
                                   PuCol(qty, seq), pair[2])]

\* line_result = {"Line": line_idx}
NewLine(line) == [Line |-> line, cols |-> <<>>]

Idle ==
    /\ pc = "idle" /\ app_mode = "" /\ NoBatch
    /\ S_base = NoneVal /\ V_base = NoneVal /\ Z_base = NoneVal /\ I_base = NoneVal
    /\ from_unit = "" /\ to_unit = "" /\ value = NoneVal /\ result = NoneVal
    /\ fn = "" /\ quantity_type = "" /\ ret1 = NoneVal /\ ret2 = NoneVal

AllEntries(n, seqs) == (1..n) \X Range(seqs) \X Range(Quantities)

\* Lines 110-128 with their inputs: the bases, the batch settings, the widgets,
\* and the start of the batch (order "loop": the line-major loop of the code;
\* "parallel": every row at once, the entries in any order).
PerUnitInputs(S, V, n, seqs, mode, perkm, len, pat, order) ==
    /\ app_mode' = "Per-Unit System"
    /\ S_base' = S /\ V_base' = V
    /\ LET b == calculate_base_values(S, V)
       IN IF b.raised # "none"
          THEN /\ pc' = b.raised
               /\ Z_base' = NoneVal /\ I_base' = NoneVal
               /\ UNCHANGED batchVars
          ELSE /\ pc' = order
               /\ Z_base' = b.Z_base /\ I_base' = b.I_base
               /\ num_lines' = n /\ sequences' = seqs /\ calc_mode' = mode
               /\ per_km' = perkm
               /\ line_length' = IF perkm THEN len ELSE One
               /\ widget' = WidgetValues(pat[1], pat[2], n, seqs)
               /\ IF order = "loop"
                  THEN /\ results' = <<>>
                       /\ line_idx' = 1 /\ line_result' = NewLine(1)
                       /\ seq_pos' = 1 /\ qty_pos' = 1
                       /\ pending' = {}
                  ELSE /\ results' = [l \in 1..n |-> NewLine(l)]
                       /\ pending' = AllEntries(n, seqs)
                       /\ line_idx' = 0 /\ line_result' = <<>>
                       /\ seq_pos' = 0 /\ qty_pos' = 0
    /\ UNCHANGED <<capVars, value, result, callVars>>

\* A run of the script on the per-unit page, up to the batch loop.
RunPerUnit ==
    /\ pc = "idle"
    /\ \E S \in SBaseInputs, V \in VBaseInputs, n \in NumLinesChoices,
          seqs \in SeqChoices, mode \in {ActualToPU, PUToActual},
          perkm \in BOOLEAN, len \in LengthInputs, pat \in WidgetPatterns :
          /\ perkm \/ len = DefaultLength
          /\ PerUnitInputs(S, V, n, seqs, mode, perkm, len, pat, "loop")

\* One iteration of the innermost loop.
Entry ==
    /\ pc = "loop" /\ seq_pos <= Len(sequences)
    /\ line_result' = LoopBody(line_result, line_idx, sequences[seq_pos], Quantities[qty_pos])
    /\ IF qty_pos < Len(Quantities)
       THEN qty_pos' = qty_pos + 1 /\ seq_pos' = seq_pos
       ELSE qty_pos' = 1 /\ seq_pos' = seq_pos + 1
    /\ UNCHANGED <<pc, app_mode, baseVars, num_lines, sequences, calc_mode, per_km,
                   line_length, widget, results, line_idx, pending,
                   capVars, value, result, callVars>>

\* results.append(line_result), and the next line or the end of the loop.
EndLine ==
    /\ pc = "loop" /\ seq_pos > Len(sequences)
    /\ results' = Append(results, line_result)
    /\ IF line_idx < num_lines
       THEN /\ line_idx' = line_idx + 1
            /\ line_result' = NewLine(line_idx + 1)
            /\ seq_pos' = 1 /\ qty_pos' = 1
            /\ pc' = "loop"
       ELSE /\ UNCHANGED <<line_idx, line_result, seq_pos, qty_pos>>
            /\ pc' = "rendered"
    /\ UNCHANGED <<app_mode, baseVars, num_lines, sequences, calc_mode, per_km,
                   line_length, widget, pending, capVars, value, result, callVars>>

\* render_capacitance_converter.
RunCapacitance ==
    /\ pc = "idle"
    /\ \E f \in CapUnits, t \in CapUnits, v \in CapValues :
          /\ from_unit' = f /\ to_unit' = t /\ value' = v
          /\ result' = convert_capacitance(v, f, t)
    /\ app_mode' = "Capacitance Converter"
    /\ pc' = "converted"
    /\ UNCHANGED <<baseVars, batchVars, callVars>>

\* The run is over (rendered, or ended by an exception); the next one starts afresh.
EndRun ==
    /\ pc \in {"rendered", "converted"} \cup Exceptions
    /\ pc' = "idle" /\ app_mode' = ""
    /\ num_lines' = 0 /\ sequences' = <<>> /\ calc_mode' = "" /\ per_km' = FALSE
    /\ line_length' = NoneVal /\ widget' = <<>> /\ results' = <<>>
    /\ line_result' = <<>> /\ line_idx' = 0 /\ seq_pos' = 0 /\ qty_pos' = 0
    /\ pending' = {}
    /\ S_base' = NoneVal /\ V_base' = NoneVal /\ Z_base' = NoneVal /\ I_base' = NoneVal
    /\ from_unit' = "" /\ to_unit' = "" /\ value' = NoneVal /\ result' = NoneVal
    /\ UNCHANGED callVars

(***************************************************************************)
(* The batch with its entries computed in any order: every row exists from *)
(* the start and each entry is computed by the loop body, once, at any     *)
(* time.                                                                   *)
(***************************************************************************)
\* The most entries of a batch whose order is free.
MaxBatch == 10

RunPerUnitAnyOrder ==
    /\ pc = "idle"
    /\ \E n \in NumLinesChoices, seqs \in SeqChoices, mode \in {ActualToPU, PUToActual},
          perkm \in BOOLEAN, a \in 0 .. 1 :
          /\ n * Len(seqs) * Len(Quantities) <= MaxBatch
          /\ PerUnitInputs(Dec(100, 1), Dec(138, 10), n, seqs, mode, perkm,
                           DefaultLength, <<a, 1>>, "parallel")

ComputeEntry ==
    /\ pc = "parallel"
    /\ \E e \in pending :
          /\ results' = [results EXCEPT ![e[1]] = LoopBody(@, e[1], e[2], e[3])]
          /\ pending' = pending \ {e}
    /\ UNCHANGED <<pc, app_mode, baseVars, num_lines, sequences, calc_mode, per_km,
                   line_length, widget, line_result, line_idx, seq_pos, qty_pos,
                   capVars, value, result, callVars>>

AllComputed ==
    /\ pc = "parallel" /\ pending = {}
    /\ pc' = "rendered"
    /\ UNCHANGED <<app_mode, baseVars, batchVars, capVars, value, result, callVars>>

AnyOrderNext == RunPerUnitAnyOrder \/ ComputeEntry \/ AllComputed \/ EndRun
SpecAnyOrder == Idle /\ [][AnyOrderNext]_vars

\* The rows of the sequential line-major loop, lines 128-146.
RECURSIVE FoldLine(_, _, _)
FoldLine(lr, sp, qp) ==
    IF sp > Len(sequences) THEN lr
    ELSE FoldLine(LoopBody(lr, lr.Line, sequences[sp], Quantities[qp]),
                  IF qp < Len(Quantities) THEN sp ELSE sp + 1,
                  IF qp < Len(Quantities) THEN qp + 1 ELSE 1)
SequentialResults == [l \in 1..num_lines |-> FoldLine(NewLine(l), 1, 1)]

(***************************************************************************)
(* Properties of the batch.                                                *)
(***************************************************************************)
InBatch == pc \in {"loop", "parallel", "rendered"}

\* The rows so far, the one being filled included.
Rows == IF pc = "loop" THEN Append(results, line_result) ELSE results

\* The entries recorded so far, each <<line, sequence, kind>>.
Recorded ==
    UNION {{<<Rows[i].Line, c[2], c[1]>> : c \in {x \in DOMAIN Rows[i].cols : x[3] = "Actual"}} :
              i \in DOMAIN Rows}
ActualOf(e) == Rows[e[1]].cols[ActualCol(e[3], e[2])]
PuOf(e) == Rows[e[1]].cols[PuCol(e[3], e[2])]
InputOf(e) == widget[WidgetKey(e[3], e[2], e[1])]

\* The bases derived from the session's S_base and V_base.
Derived == calculate_base_values(S_base, V_base)
ToPu(x, qty) == to_pu(x, Derived.Z_base, Derived.I_base, V_base, qty)
FromPu(x, qty) == from_pu(x, Derived.Z_base, Derived.I_base, V_base, qty)

\* given -> derived -> back neither overflowed nor underflowed.
TripInRange(given, derived, back) ==
    /\ IsFinite(back)
    /\ IsZero(given) \/ (IsNormal(given) /\ IsNormal(derived))

\* C4 as stated: after the batch loop every recorded entry holds perUnit = to_pu(actual) and
\* actual = from_pu(perUnit) for the bases derived from S_base and V_base.
C4_LawBothWays ==
    pc = "rendered" => \A e \in Recorded :
        /\ PyEq(PuOf(e), ToPu(ActualOf(e), e[3]))
        /\ PyEq(ActualOf(e), FromPu(PuOf(e), e[3]))

\* C4 amended: after the batch loop every recorded entry satisfies the law in the direction it was
\* derived (perUnit = to_pu(actual) in Actual -> PU mode, actual = from_pu(perUnit)
\* in PU -> Actual mode) and, whenever nothing overflows or underflows, the
\* other direction up to a relative error of 3 * 2^(-Prec).
C4_LawDerivedWay ==
    pc = "rendered" => \A e \in Recorded :
        /\ calc_mode = ActualToPU =>
              /\ PuOf(e) = ToPu(ActualOf(e), e[3])
              /\ TripInRange(ActualOf(e), PuOf(e), FromPu(PuOf(e), e[3]))
                    => Close(FromPu(PuOf(e), e[3]), ActualOf(e), 3)
        /\ calc_mode = PUToActual =>
              /\ ActualOf(e) = FromPu(PuOf(e), e[3])
              /\ TripInRange(PuOf(e), ActualOf(e), ToPu(ActualOf(e), e[3]))
                    => Close(ToPu(ActualOf(e), e[3]), PuOf(e), 3)

\* C4 witness: a per-km entry of a finished batch whose perUnit is to_pu(actual)
\* and whose actual is from_pu(perUnit) only up to rounding.
C4_Witness ==
    /\ pc = "rendered" /\ calc_mode = ActualToPU /\ per_km
    /\ \E e \in Recorded :
          /\ PuOf(e) = ToPu(ActualOf(e), e[3])
          /\ TripInRange(ActualOf(e), PuOf(e), FromPu(PuOf(e), e[3]))
          /\ ~ PyEq(ActualOf(e), FromPu(PuOf(e), e[3]))
          /\ Close(FromPu(PuOf(e), e[3]), ActualOf(e), 3)

\* The iterations of the innermost loop done so far.
IterationsDone ==
    IF pc = "rendered" THEN num_lines * Len(sequences) * Len(Quantities)
    ELSE (line_idx - 1) * Len(sequences) * Len(Quantities)
         + (seq_pos - 1) * Len(Quantities) + (qty_pos - 1)

\* C5: the loop produces one entry for each (line, sequence, kind), N * k * 5
\* in all, and every iteration records an entry of its own (none overwrites
\* another).
C5_BatchComplete ==
    /\ pc \in {"loop", "rendered"} =>
          /\ Cardinality(Recorded) = IterationsDone
          /\ \A i \in DOMAIN Rows : Cardinality(DOMAIN Rows[i].cols)
                                       = 2 * Cardinality({e \in Recorded : e[1] = i})
    /\ pc = "rendered" =>
          /\ Len(results) = num_lines
          /\ \A i \in DOMAIN results : results[i].Line = i
          /\ Recorded = AllEntries(num_lines, sequences)
          /\ Cardinality(Recorded) = num_lines * Len(sequences) * 5

\* C5 witness: a finished batch of two lines and two sequences with its 20 entries.
C5_Witness ==
    /\ pc = "rendered" /\ num_lines = 2 /\ Len(sequences) = 2
    /\ Cardinality(Recorded) = 20

\* The value the per-km rule makes of an entered value.
Scaled(v, qty) == IF per_km /\ qty \in PerKmKinds THEN FMul(v, line_length) ELSE v

\* C6: in Actual -> PU mode the recorded actual value is v * line_length for
\* Resistance, Reactance and Susceptance when the per-km flag is set and v
\* otherwise, it is what to_pu receives, and the pair is the one of v * line_length
\* entered with per-km disabled.
C6_PerKmScaling ==
    (pc = "rendered" /\ calc_mode = ActualToPU) => \A e \in Recorded :
        /\ ActualOf(e) = Scaled(InputOf(e), e[3])
        /\ PuOf(e) = to_pu(Scaled(InputOf(e), e[3]), Z_base, I_base, V_base, e[3])
        /\ <<ActualOf(e), PuOf(e)>>
              = EntryPair(Scaled(InputOf(e), e[3]), e[3], ActualToPU, FALSE, One,
                          Z_base, I_base, V_base)

\* C6 witness: with per-km set and a length of 10, a resistance entered as 0.05
\* is recorded as 0.5 with the per-unit value of 0.5, and a voltage entered as
\* 0.05 is recorded as entered.
C6_Witness ==
    /\ pc = "rendered" /\ calc_mode = ActualToPU /\ per_km /\ line_length = DefaultLength
    /\ \E e \in Recorded :
          /\ e[3] = "Resistance" /\ InputOf(e) = Dec(5, 100)
          /\ ActualOf(e) = FMul(Dec(5, 100), DefaultLength)
          /\ ActualOf(e) = Dec(5, 10)
          /\ PuOf(e) = to_pu(Dec(5, 10), Z_base, I_base, V_base, "Resistance")
    /\ \E e \in Recorded :
          /\ e[3] = "Voltage" /\ InputOf(e) = Dec(5, 100)
          /\ ActualOf(e) = Dec(5, 100)

\* C8: each entry's pair is a function of its own input, the mode, the per-km
\* setting and the bases, and the entries computed in any order make the
\* result collection of the sequential line-major loop.
C8_OrderIndependent ==
    /\ InBatch => \A e \in Recorded :
          <<ActualOf(e), PuOf(e)>>
              = EntryPair(InputOf(e), e[3], calc_mode, per_km, line_length,
                          Z_base, I_base, V_base)
    /\ pc = "rendered" => results = SequentialResults

\* C8 witness: the last entry of the line-major order is computed and the first is not.
C8_Witness ==
    /\ pc = "parallel" /\ num_lines = 2 /\ Len(sequences) = 1
    /\ <<1, sequences[1], "Resistance">> \in pending
    /\ <<2, sequences[1], "Current">> \in Recorded

\* C10: in PU -> Actual mode the recorded pair is (from_pu(p), p) for the entered
\* p, whatever the per-km flag and the line length.
C10_PUModeIgnoresLength ==
    (pc = "rendered" /\ calc_mode = PUToActual) => \A e \in Recorded :
        /\ PuOf(e) = InputOf(e)
        /\ ActualOf(e) = from_pu(InputOf(e), Z_base, I_base, V_base, e[3])

\* C10 witness: with per-km set and a length that is not 1, a reactance entered
\* in per unit is recorded with from_pu of it as its actual value.
C10_Witness ==
    /\ pc = "rendered" /\ calc_mode = PUToActual /\ per_km /\ line_length = Dec(1, 10)
    /\ \E e \in Recorded :
          /\ e[3] = "Reactance" /\ IsNormal(InputOf(e))
          /\ ActualOf(e) = from_pu(InputOf(e), Z_base, I_base, V_base, "Reactance")
          /\ ActualOf(e) # FMul(from_pu(InputOf(e), Z_base, I_base, V_base, "Reactance"),
                                line_length)

Init == Idle
Next == RunPerUnit \/ Entry \/ EndLine \/ RunCapacitance \/ EndRun
Spec == Init /\ [][Next]_vars
====
